---- MODULE Spec2Model ----
(***************************************************************************)
(* Two teaching notebooks, each evaluated by its own kernel one code cell  *)
(* at a time from top to bottom:                                           *)
(*   - the resampling notebook (bootstrap and jackknife error estimates of *)
(*     the Hubble constant), src/unnamed/part_000;                         *)
(*   - the WCS notebook, src/notebooks/10-WCS/WCS_tutorial.ipynb.          *)
(* The state is the kernel's namespace.  A code cell is one action: the    *)
(* cell is compiled as a whole (a cell that does not parse raises          *)
(* SyntaxError and runs nothing), then its statements run in order until   *)
(* one raises; what ran before the exception keeps its effect.             *)
(***************************************************************************)
EXTENDS Integers, Sequences, FiniteSets, TLC

\* ---------------------------------------------------------------- bounds
\* Longest Hubble-constant table read from hubble_trim.dat.
MaxRows == 2
\* Number of bootstrap samples (int(1e4) in the notebook, scaled down).
NBootstraps == 2
\* Longest supernova table read from sndata.txt.
MaxSN == 4

\* ------------------------------------------------------ program constants
\* data.query('date>2001')
DateCut == 2001
\* w.wcs.crpix = [200, 200]
NewCrpix == 200
\* the 'origin' argument of every transform call on w
Origin == 1

VARIABLES
  notebook,     \* which notebook this kernel evaluates
  pc,           \* the next code cell to evaluate
  raised,       \* the cells that raised, each with its exception
  bound,        \* the names assigned in the kernel's namespace
  \* --- resampling notebook
  data, data_modern, ndata, nbootstraps, hboot, h0_mean,
  logv, mu, sigma_mu, weight,
  intercept_best, intercept_err_best, h0_best, h0_best_err, printed,
  intercept, logv_jack, mu_jack, weight_jack, h0_jack, h0_sigma_jack,
  sboot, h0_median_smoothed, nsims, rand_indices,
  jack_writes,  \* the writes h0_jack[i] = ... made by the fitting loop, in order
  \* --- WCS notebook
  sip_file, tpv_header, w, w_tpv, ra, dec,
  out           \* the calls made on the WCS objects, in order, with what each saw

vars == << notebook, pc, raised, bound,
           data, data_modern, ndata, nbootstraps, hboot, h0_mean,
           logv, mu, sigma_mu, weight,
           intercept_best, intercept_err_best, h0_best, h0_best_err, printed,
           intercept, logv_jack, mu_jack, weight_jack, h0_jack, h0_sigma_jack,
           sboot, h0_median_smoothed, nsims, rand_indices, jack_writes,
           sip_file, tpv_header, w, w_tpv, ra, dec, out >>

resamplingVars == << data, data_modern, ndata, nbootstraps, hboot, h0_mean,
           logv, mu, sigma_mu, weight,
           intercept_best, intercept_err_best, h0_best, h0_best_err, printed,
           intercept, logv_jack, mu_jack, weight_jack, h0_jack, h0_sigma_jack,
           sboot, h0_median_smoothed, nsims, rand_indices, jack_writes >>

jitterVars == << sboot, h0_median_smoothed >>

indexVars == << nsims, rand_indices >>

wcsVars == << sip_file, tpv_header, w, w_tpv, ra, dec, out >>

\* ---------------------------------------------------------------- helpers
Range(s) == { s[k] : k \in 1..Len(s) }

RECURSIVE Sum(_)
Sum(s) == IF s = << >> THEN 0 ELSE Head(s) + Sum(Tail(s))

RECURSIVE Pow10(_)
Pow10(k) == IF k <= 0 THEN 1 ELSE 10 * Pow10(k - 1)

\* ---------------------------------------------- running a cell's statements
\* A statement of a cell: the kernel names it reads and the names it binds.
Stmt(reads, writes) == [reads |-> reads, writes |-> writes]

\* Run the statements in order from namespace b.  A statement that reads an
\* unbound name raises NameError and ends the cell; failed is the index of
\* the statement that raised (0: the cell completed).
RECURSIVE RunFrom(_, _, _)
RunFrom(stmts, k, b) ==
  IF k > Len(stmts) THEN [bound |-> b, failed |-> 0]
  ELSE IF ~(stmts[k].reads \subseteq b) THEN [bound |-> b, failed |-> k]
  ELSE RunFrom(stmts, k + 1, b \cup stmts[k].writes)

Run(stmts, b) == RunFrom(stmts, 1, b)

\* Statement j of the run r completed.
Ran(r, j) == r.failed = 0 \/ j < r.failed

\* The exceptions recorded so far, with the one the run r ended in, if any.
Raise(cell, r) ==
  IF r.failed = 0 THEN raised
  ELSE raised \cup {[cell |-> cell, error |-> "NameError", stmt |-> r.failed]}

\* ------------------------------------------------ resampling: input files
\* Rows of hubble_trim.dat: a measured H0 and the date of the measurement.
HubbleRows == { [h0 |-> 60, date |-> 2000], [h0 |-> 70, date |-> 2001],
                [h0 |-> 80, date |-> 2002], [h0 |-> 75, date |-> 2003] }

\* The file holds measurements made after the cut (134 of them, by the
\* notebook's text), so the cut never leaves an empty table.
HubbleTables == { t \in UNION { [1..k -> HubbleRows] : k \in 1..MaxRows } :
                  \E k \in 1..Len(t) : t[k].date > DateCut }

\* np.polyfit(logv, mu, 1, ...) fits two coefficients; with cov=True it
\* needs more data points than that, so sndata.txt holds at least three rows.
FitOrder == 2

\* Row k of sndata.txt: recession velocity cz, distance modulus mu, its error.
SNRow(k) == [cz |-> Pow10(k + 2), mu |-> 30 + 5 * k, sigma_mu |-> 1 + (k % 2)]

SNTables == { [k \in 1..n |-> SNRow(k)] : n \in (FitOrder + 1)..MaxSN }

\* Results np.polyfit may return for the intercept and its standard error.
InterceptVals == {17, 25}
InterceptErrVals == {0, 1}

\* ------------------------------------------- resampling: array operations
Column(table, name) == [k \in 1..Len(table) |-> table[k][name]]

\* data.query('date>2001')
DateQuery(table) == SelectSeq(table, LAMBDA r : r.date > DateCut)

\* A variant of np_random_choice with the two sizes exchanged, size=(cols, rows).
np_random_choice_T(a, rows, cols) == [1..cols -> [1..rows -> Range(a)]]

\* np.random.choice(a, size=(rows, cols), replace=True): every outcome.
np_random_choice(a, rows, cols) == [1..rows -> [1..cols -> Range(a)]]

\* A rational n/d is the pair <<n, d>> with d > 0.
RatEq(p, q) == p[1] * q[2] = q[1] * p[2]
RatLe(p, q) == p[1] * q[2] <= q[1] * p[2]

\* np.mean of a 1-D array
np_mean(x) == << Sum(x), Len(x) >>

\* A variant of np_mean_axis1: np.mean(a, axis=0), one mean per column.
np_mean_axis0(a) ==
  [j \in 1..Len(a[1]) |-> << Sum([k \in 1..Len(a) |-> a[k][j]]), Len(a) >>]

\* np.mean(a, axis=1): one mean per row
np_mean_axis1(a) == [k \in 1..Len(a) |-> np_mean(a[k])]

\* np.log10, on the powers of ten the velocities are
RECURSIVE np_log10(_)
np_log10(x) == IF x < 10 THEN 0 ELSE 1 + np_log10(x \div 10)

\* weight = 1/sigma_mu**2
Weight(sigma) == [k \in 1..Len(sigma) |-> << 1, sigma[k] * sigma[k] >>]

\* A variant of LeaveOut that is off by one: (x[:i+1], x[i+2:]).
LeaveOutNext(x, i) == SubSeq(x, 1, i + 1) \o SubSeq(x, i + 3, Len(x))

\* np.concatenate((x[:i], x[i+1:])) for the 0-based i of the loop
LeaveOut(x, i) == SubSeq(x, 1, i) \o SubSeq(x, i + 2, Len(x))

\* the construction loop: row i (0-based) of x_jack is x without element i
JackRows(x, n) == [k \in 1..n |-> LeaveOut(x, k - 1)]

\* np.zeros(n)
np_zeros(n) == [k \in 1..n |-> 0]

\* ---------------------------------------------- resampling: intercept to H0
\* 10**(j/5) for j = 0..4, in thousandths
Root5 == << 1000, 1585, 2512, 3981, 6310 >>

\* One km/s/Mpc in the fixed-point unit of int_to_H0.
H0Unit == Pow10(4)

\* A variant of int_to_H0 with an integer exponent, 10**(-b//5) * 10**5.
int_to_H0_floor(b) == Root5[1] * Pow10(((0 - b) \div 5) + 6)

\* def int_to_H0(b): return(10**(-0.2*b) * 10**5), for an integer b in 1..30,
\* in units of 1/H0Unit: -0.2*b = q + j/5 with q = floor(-b/5), so the value
\* is 10**(j/5) * 10**(q+5).
int_to_H0(b) == Root5[((0 - b) % 5) + 1] * Pow10(((0 - b) \div 5) + 6)

\* (int_to_H0(b - e) - int_to_H0(b + e)) / 2
BestErr(b, e) == (int_to_H0(b - e) - int_to_H0(b + e)) \div 2

\* the list printed after 'Polyfit Values: '
PolyfitValues(b, e, best) == << int_to_H0(b + e), best, int_to_H0(b - e) >>

\* ------------------------------------------ resampling: jackknife error
\* A variant of np_std with the divisor len(x) - 1 (ddof=1).
np_std_ddof1(x) ==
  LET n == Len(x)
      S == Sum(x)
  IN [sq |-> << Sum([k \in 1..n |-> (n * x[k] - S) * (n * x[k] - S)]),
                n * n * (n - 1) >>]

\* A non-negative real is kept as its square, a rational: [sq |-> <<n, d>>].
\* np.std(x): the root of the mean squared deviation from the mean
\* (divisor len(x)); x[k] - mean = (n*x[k] - S)/n.
np_std(x) ==
  LET n == Len(x)
      S == Sum(x)
  IN [sq |-> << Sum([k \in 1..n |-> (n * x[k] - S) * (n * x[k] - S)]), n * n * n >>]

\* np.sqrt(k) for an integer k >= 0
np_sqrt(k) == [sq |-> << k, 1 >>]

\* the product of two non-negative reals
RootMul(a, b) == [sq |-> << a.sq[1] * b.sq[1], a.sq[2] * b.sq[2] >>]

\* h0_sigma_jack = np.std(h0_jack)*np.sqrt(ndata-1)
SigmaJack(x, n) == RootMul(np_std(x), np_sqrt(n - 1))

\* ------------------------------------------------- resampling: the cells
\* A cell that only reads, plots or prints: its statements run, no value of
\* the model changes.
PlainCell(label, next, stmts) ==
  /\ pc = label
  /\ LET r == Run(stmts, bound)
     IN /\ bound' = r.bound
        /\ raised' = Raise(label, r)
  /\ pc' = next
  /\ UNCHANGED << notebook, resamplingVars, wcsVars >>

\* A cell whose source does not parse: the kernel raises SyntaxError before
\* running any of its statements.
SyntaxErrorCell(label, next) ==
  /\ pc = label
  /\ raised' = raised \cup {[cell |-> label, error |-> "SyntaxError", stmt |-> 0]}
  /\ pc' = next
  /\ UNCHANGED << notebook, bound, resamplingVars, wcsVars >>

ImportStmts == << Stmt({}, {"np"}), Stmt({}, {"pd"}), Stmt({}, {"plt"}) >>

ImportCell == PlainCell("imports", "load_hubble", ImportStmts)

LoadHubbleStmts == << Stmt({"pd"}, {"data"}), Stmt({"data"}, {}) >>

\* The cell that reads hubble_trim.dat, the file holding one of the tables.
LoadHubble(tables) ==
  /\ pc = "load_hubble"
  /\ \E t \in tables :
       LET r == Run(LoadHubbleStmts, bound)
       IN /\ bound' = r.bound
          /\ raised' = Raise("load_hubble", r)
          /\ data' = IF Ran(r, 1) THEN t ELSE data
  /\ pc' = "plot_all"
  /\ UNCHANGED << notebook, data_modern, ndata, nbootstraps, hboot, h0_mean,
                  logv, mu, sigma_mu, weight, intercept_best,
                  intercept_err_best, h0_best, h0_best_err, printed, intercept,
                  logv_jack, mu_jack, weight_jack, h0_jack, h0_sigma_jack,
                  jitterVars, indexVars, jack_writes, wcsVars >>

LoadHubbleCell == LoadHubble(HubbleTables)

PlotAllStmts == << Stmt({"plt", "data", "np"}, {}), Stmt({"plt"}, {}) >>

PlotAllCell == PlainCell("plot_all", "date_cut", PlotAllStmts)

DateCutStmts == << Stmt({"data"}, {"data_modern"}),
                   Stmt({"plt", "data_modern", "np"}, {}) >>

DateCutCell ==
  /\ pc = "date_cut"
  /\ LET r == Run(DateCutStmts, bound)
     IN /\ bound' = r.bound
        /\ raised' = Raise("date_cut", r)
        /\ data_modern' = IF Ran(r, 1) THEN DateQuery(data) ELSE data_modern
  /\ pc' = "hist"
  /\ UNCHANGED << notebook, data, ndata, nbootstraps, hboot, h0_mean,
                  logv, mu, sigma_mu, weight, intercept_best,
                  intercept_err_best, h0_best, h0_best_err, printed, intercept,
                  logv_jack, mu_jack, weight_jack, h0_jack, h0_sigma_jack,
                  jitterVars, indexVars, jack_writes, wcsVars >>

HistStmts == << Stmt({"np", "data_modern"}, {"hdelta_mean"}),
                Stmt({"plt", "data_modern", "np"}, {}),
                Stmt({"plt", "hdelta_mean"}, {}) >>

HistCell == PlainCell("hist", "bootstrap_draw", HistStmts)

BootstrapDrawStmts ==
  << Stmt({"data_modern"}, {"ndata"}),
     Stmt({}, {"nbootstraps"}),
     Stmt({"np", "data_modern", "nbootstraps", "ndata"}, {"hboot"}),
     Stmt({"np", "hboot"}, {}) >>

BootstrapDrawCell ==
  /\ pc = "bootstrap_draw"
  /\ LET n == Len(data_modern)
         r == Run(BootstrapDrawStmts, bound)
     IN /\ bound' = r.bound
        /\ raised' = Raise("bootstrap_draw", r)
        /\ ndata' = IF Ran(r, 1) THEN n ELSE ndata
        /\ nbootstraps' = IF Ran(r, 2) THEN NBootstraps ELSE nbootstraps
        /\ IF Ran(r, 3)
           THEN hboot' \in np_random_choice(Column(data_modern, "h0"), NBootstraps, n)
           ELSE hboot' = hboot
  /\ pc' = "hist_boot"
  /\ UNCHANGED << notebook, data, data_modern, h0_mean,
                  logv, mu, sigma_mu, weight, intercept_best,
                  intercept_err_best, h0_best, h0_best_err, printed, intercept,
                  logv_jack, mu_jack, weight_jack, h0_jack, h0_sigma_jack,
                  jitterVars, indexVars, jack_writes, wcsVars >>

HistBootStmts == << Stmt({"plt", "data_modern", "np"}, {}),
                    Stmt({"plt", "np", "hboot"}, {}),
                    Stmt({"plt"}, {}) >>

HistBootCell == PlainCell("hist_boot", "hist_first5", HistBootStmts)

HistFirst5Stmts == << Stmt({"plt", "hboot", "np"}, {"i"}), Stmt({"plt"}, {}) >>

HistFirst5Cell == PlainCell("hist_first5", "mean", HistFirst5Stmts)

MeanStmts == << Stmt({"np", "hboot"}, {"h0_mean"}),
                Stmt({"np", "data_modern"}, {}),
                Stmt({"np", "h0_mean"}, {}),
                Stmt({"plt", "h0_mean", "np"}, {}),
                Stmt({"plt", "np", "data_modern"}, {}) >>

MeanCell ==
  /\ pc = "mean"
  /\ LET r == Run(MeanStmts, bound)
     IN /\ bound' = r.bound
        /\ raised' = Raise("mean", r)
        /\ h0_mean' = IF Ran(r, 1) THEN np_mean_axis1(hboot) ELSE h0_mean
  /\ pc' = "percentile"
  /\ UNCHANGED << notebook, data, data_modern, ndata, nbootstraps, hboot,
                  logv, mu, sigma_mu, weight, intercept_best,
                  intercept_err_best, h0_best, h0_best_err, printed, intercept,
                  logv_jack, mu_jack, weight_jack, h0_jack, h0_sigma_jack,
                  jitterVars, indexVars, jack_writes, wcsVars >>

PercentileStmts == << Stmt({"np", "h0_mean"}, {}) >>

PercentileCell == PlainCell("percentile", "median", PercentileStmts)

\* h0_median = np.median(?            -- does not parse
MedianCell == SyntaxErrorCell("median", "jitter")

\* ... np.percentile(?))              -- does not parse
JitterCell == SyntaxErrorCell("jitter", "load_sn")

\* The values a draw of np.random.randn may take, in the unit of h0.
NoiseVals == {-1, 0, 1}

\* A variant of np_random_randn with the two sizes exchanged, randn(cols, rows).
np_random_randn_T(rows, cols) == [1..cols -> [1..rows -> NoiseVals]]

\* np.random.randn(rows, cols): every outcome.
np_random_randn(rows, cols) == [1..rows -> [1..cols -> NoiseVals]]

\* np.shape of a 2-D array with at least one row
Shape(a) == << Len(a), Len(a[1]) >>

\* Two lengths of one axis can be broadcast: they are equal or one of them is 1.
AxisFits(m, n) == m = n \/ m = 1 \/ n = 1

Broadcastable(a, b) ==
  AxisFits(Shape(a)[1], Shape(b)[1]) /\ AxisFits(Shape(a)[2], Shape(b)[2])

Larger(m, n) == IF m >= n THEN m ELSE n

\* a + b on two 2-D arrays, with numpy's broadcasting of an axis of length 1
np_add(a, b) ==
  [k \in 1..Larger(Shape(a)[1], Shape(b)[1]) |->
    [j \in 1..Larger(Shape(a)[2], Shape(b)[2]) |->
       a[IF Shape(a)[1] = 1 THEN 1 ELSE k][IF Shape(a)[2] = 1 THEN 1 ELSE j]
     + b[IF Shape(b)[1] = 1 THEN 1 ELSE k][IF Shape(b)[2] = 1 THEN 1 ELSE j]]]

\* np.median of a 1-D array, a rational: the middle value of the sorted
\* array, or the mean of its two middle values.
np_median(x) ==
  LET n == Len(x)
      sorted == SortSeq(x, LAMBDA u, v : u < v)
  IN IF n % 2 = 1 THEN << sorted[(n + 1) \div 2], 1 >>
     ELSE << sorted[n \div 2] + sorted[(n \div 2) + 1], 2 >>

\* np.median(a, axis=1): one median per row
np_median_axis1(a) == [k \in 1..Len(a) |-> np_median(a[k])]

\* The statements of the jitter cell above its unfinished last line.
JitterStmts ==
  << Stmt({"hboot", "np", "nbootstraps", "ndata"}, {"sboot"}),
     Stmt({"np", "sboot"}, {"h0_median_smoothed"}),
     Stmt({"plt", "h0_median_smoothed", "np"}, {}),
     Stmt({"plt"}, {}) >>

\* Those statements evaluated on their own, in the kernel state the jitter
\* cell is evaluated in.  hboot + noise raises ValueError when the two shapes
\* cannot be broadcast.
JitterLines ==
  /\ pc = "jitter"
  /\ \E noise \in np_random_randn(nbootstraps, ndata) :
       LET r == Run(JitterStmts, bound)
           fits == Broadcastable(hboot, noise)
           sb == np_add(hboot, noise)
       IN IF Ran(r, 1) /\ ~fits
          THEN /\ bound' = bound
               /\ raised' = raised \cup
                    {[cell |-> "jitter", error |-> "ValueError", stmt |-> 1]}
               /\ UNCHANGED jitterVars
          ELSE /\ bound' = r.bound
               /\ raised' = Raise("jitter", r)
               /\ sboot' = IF Ran(r, 1) THEN sb ELSE sboot
               /\ h0_median_smoothed' =
                    IF Ran(r, 2) THEN np_median_axis1(sb) ELSE h0_median_smoothed
  /\ pc' = "load_sn"
  /\ UNCHANGED << notebook, data, data_modern, ndata, nbootstraps, hboot, h0_mean,
                  logv, mu, sigma_mu, weight, intercept_best,
                  intercept_err_best, h0_best, h0_best_err, printed, intercept,
                  logv_jack, mu_jack, weight_jack, h0_jack, h0_sigma_jack,
                  indexVars, jack_writes, wcsVars >>

LoadSNStmts ==
  << Stmt({}, {"path"}),
     Stmt({"pd", "path"}, {"data"}),
     Stmt({"data"}, {"cz"}),
     Stmt({"np", "data"}, {"logv"}),
     Stmt({"data"}, {"mu"}),
     Stmt({"data"}, {"sigma_mu"}),
     Stmt({"sigma_mu"}, {"weight"}),
     Stmt({"np", "logv", "mu", "weight"}, {"coeffs", "covar"}),
     Stmt({"coeffs"}, {"slope_best"}),
     Stmt({"coeffs"}, {"intercept_best"}),
     Stmt({"np", "covar"}, {"intercept_err_best"}),
     Stmt({}, {"int_to_H0"}),
     Stmt({"int_to_H0", "intercept_best"}, {"h0_best"}),
     Stmt({"int_to_H0", "intercept_best", "intercept_err_best"}, {"h0_best_err"}) >>

\* The cell that reads sndata.txt, fits the line and converts the intercept;
\* the fit returns an intercept in bs with a standard error in es.
LoadSN(bs, es) ==
  /\ pc = "load_sn"
  /\ \E t \in SNTables, b \in bs, e \in es :
       LET r == Run(LoadSNStmts, bound)
       IN /\ bound' = r.bound
          /\ raised' = Raise("load_sn", r)
          /\ data' = IF Ran(r, 2) THEN t ELSE data
          /\ logv' = IF Ran(r, 4)
                     THEN [k \in 1..Len(t) |-> np_log10(t[k].cz)] ELSE logv
          /\ mu' = IF Ran(r, 5) THEN Column(t, "mu") ELSE mu
          /\ sigma_mu' = IF Ran(r, 6) THEN Column(t, "sigma_mu") ELSE sigma_mu
          /\ weight' = IF Ran(r, 7) THEN Weight(Column(t, "sigma_mu")) ELSE weight
          /\ intercept_best' = IF Ran(r, 10) THEN b ELSE intercept_best
          /\ intercept_err_best' = IF Ran(r, 11) THEN e ELSE intercept_err_best
          /\ h0_best' = IF Ran(r, 13) THEN int_to_H0(b) ELSE h0_best
          /\ h0_best_err' = IF Ran(r, 14) THEN BestErr(b, e) ELSE h0_best_err
  /\ pc' = "bootstrap_fit"
  /\ UNCHANGED << notebook, data_modern, ndata, nbootstraps, hboot, h0_mean,
                  printed, intercept,
                  logv_jack, mu_jack, weight_jack, h0_jack, h0_sigma_jack,
                  jitterVars, indexVars, jack_writes, wcsVars >>

LoadSNCell == LoadSN(InterceptVals, InterceptErrVals)

\* nsims = int(1e4), scaled down.
NSims == 2

\* A variant of np_random_randint whose upper end is included.
np_random_randint_incl(low, high, rows, cols) ==
  [1..rows -> [1..cols -> low..high]]

\* np.random.randint(low, high, (rows, cols)): every outcome; high is excluded.
np_random_randint(low, high, rows, cols) ==
  [1..rows -> [1..cols -> low..(high - 1)]]

\* The statements of the bootstrap-fit cell above its fitting loop.
RandIndicesStmts ==
  << Stmt({}, {"nsims"}),
     Stmt({"mu"}, {"ndata"}),
     Stmt({"np", "ndata", "nsims"}, {"rand_indices"}),
     Stmt({"np", "nsims"}, {"h0_boot"}),
     Stmt({"np", "nsims"}, {"intercept_arr"}),
     Stmt({"np", "nsims"}, {"slope_arr"}) >>

\* Those statements evaluated on their own.
RandIndicesStep ==
  /\ pc = "rand_indices"
  /\ \E idx \in np_random_randint(0, Len(mu), NSims, Len(mu)) :
       LET r == Run(RandIndicesStmts, bound)
       IN /\ bound' = r.bound
          /\ raised' = Raise("bootstrap_fit", r)
          /\ nsims' = IF Ran(r, 1) THEN NSims ELSE nsims
          /\ ndata' = IF Ran(r, 2) THEN Len(mu) ELSE ndata
          /\ rand_indices' = IF Ran(r, 3) THEN idx ELSE rand_indices
  /\ pc' = "done"
  /\ UNCHANGED << notebook, data, data_modern, nbootstraps, hboot, h0_mean,
                  logv, mu, sigma_mu, weight, intercept_best,
                  intercept_err_best, h0_best, h0_best_err, printed, intercept,
                  logv_jack, mu_jack, weight_jack, h0_jack, h0_sigma_jack,
                  jitterVars, jack_writes, wcsVars >>

\*     h0_boot[i] =                   -- does not parse
BootstrapFitCell == SyntaxErrorCell("bootstrap_fit", "hist_h0")

\* a cell holding only a comment
HistH0Stmts == << >>

HistH0Cell == PlainCell("hist_h0", "print_values", HistH0Stmts)

\* A variant of PrintValuesStmts whose second print does not read h0_boot.
PrintValuesStmtsNoBoot ==
  << Stmt({"int_to_H0", "intercept_best", "intercept_err_best", "h0_best"}, {}),
     Stmt({"np"}, {}) >>

PrintValuesStmts ==
  << Stmt({"int_to_H0", "intercept_best", "intercept_err_best", "h0_best"}, {}),
     Stmt({"np", "h0_boot"}, {}) >>

PrintValuesCell ==
  /\ pc = "print_values"
  /\ LET r == Run(PrintValuesStmts, bound)
     IN /\ bound' = r.bound
        /\ raised' = Raise("print_values", r)
        /\ printed' = IF Ran(r, 1)
                      THEN PolyfitValues(intercept_best, intercept_err_best, h0_best)
                      ELSE printed
  /\ pc' = "jackknife"
  /\ UNCHANGED << notebook, data, data_modern, ndata, nbootstraps, hboot, h0_mean,
                  logv, mu, sigma_mu, weight, intercept_best,
                  intercept_err_best, h0_best, h0_best_err, intercept,
                  logv_jack, mu_jack, weight_jack, h0_jack, h0_sigma_jack,
                  jitterVars, indexVars, jack_writes, wcsVars >>

JackknifeStmts ==
  << Stmt({"mu"}, {"ndata"}),
     Stmt({"np", "ndata"}, {"logv_jack"}),
     Stmt({"np", "ndata"}, {"mu_jack"}),
     Stmt({"np", "ndata"}, {"weight_jack"}),
     Stmt({"np", "ndata"}, {"h0_jack"}),
     Stmt({"ndata", "np", "logv", "mu", "weight",
           "logv_jack", "mu_jack", "weight_jack"}, {"i"}),
     Stmt({"np", "ndata"}, {"h0_jack"}),
     Stmt({"ndata", "int_to_H0", "intercept", "h0_jack"}, {"i"}),
     Stmt({"plt", "h0_jack"}, {}),
     Stmt({"np", "h0_jack", "ndata"}, {"h0_sigma_jack"}),
     Stmt({"h0_sigma_jack", "h0_best_err"}, {}) >>

\* np.zeros((n, n-1))
ZeroRows(n) == [k \in 1..n |-> np_zeros(n - 1)]

\* A variant of H0JackAlloc that keeps the length of the first allocation.
H0JackAllocShort(n) == np_zeros(n - 1)

\* h0_jack = np.zeros(ndata), the allocation before the fitting loop
H0JackAlloc(n) == np_zeros(n)

\* The writes h0_jack[i] = ... of the fitting loop, i from 0 to n-1, on an
\* array of length len, each with the length the array has at the write; a
\* write out of range raises IndexError and ends the loop.
FitWrites(n, len) ==
  [k \in 1..(IF len < n THEN len + 1 ELSE n) |-> [i |-> k - 1, len |-> len]]

\* What the jackknife cell computes; the table has rows, so both loops run
\* their body.
JackknifeRun ==
  LET n == Len(mu)
      r == Run(JackknifeStmts, bound)
      alloc == H0JackAlloc(n)
      indexErr == Ran(r, 8) /\ Len(alloc) < n
      jack == IF Ran(r, 8) THEN [k \in 1..Len(alloc) |-> int_to_H0(intercept)]
              ELSE IF Ran(r, 7) THEN alloc
              ELSE IF Ran(r, 5) THEN np_zeros(n - 1)
              ELSE h0_jack
  IN /\ bound' = IF indexErr THEN Run(SubSeq(JackknifeStmts, 1, 8), bound).bound
                 ELSE r.bound
     /\ raised' = IF indexErr
                  THEN raised \cup
                       {[cell |-> "jackknife", error |-> "IndexError", stmt |-> 8]}
                  ELSE Raise("jackknife", r)
     /\ ndata' = IF Ran(r, 1) THEN n ELSE ndata
     /\ logv_jack' = IF Ran(r, 6) THEN JackRows(logv, n)
                     ELSE IF Ran(r, 2) THEN ZeroRows(n) ELSE logv_jack
     /\ mu_jack' = IF Ran(r, 6) THEN JackRows(mu, n)
                   ELSE IF Ran(r, 3) THEN ZeroRows(n) ELSE mu_jack
     /\ weight_jack' = IF Ran(r, 6) THEN JackRows(weight, n)
                       ELSE IF Ran(r, 4) THEN ZeroRows(n) ELSE weight_jack
     /\ h0_jack' = jack
     /\ jack_writes' = IF Ran(r, 8) THEN FitWrites(n, Len(alloc)) ELSE << >>
     /\ h0_sigma_jack' = IF Ran(r, 10) /\ ~indexErr THEN SigmaJack(jack, n)
                         ELSE h0_sigma_jack

\* A variant of JackknifeCell whose loop deletes from mu in place.
JackknifeCellDel ==
  /\ pc = "jackknife"
  /\ JackknifeRun
  /\ pc' = "done"
  /\ mu' = LeaveOut(mu, 0)
  /\ UNCHANGED << notebook, data, data_modern, nbootstraps, hboot, h0_mean,
                  logv, sigma_mu, weight, intercept_best,
                  intercept_err_best, h0_best, h0_best_err, printed, intercept,
                  jitterVars, indexVars, wcsVars >>

JackknifeCell ==
  /\ pc = "jackknife"
  /\ JackknifeRun
  /\ pc' = "done"
  /\ UNCHANGED << notebook, data, data_modern, nbootstraps, hboot, h0_mean,
                  logv, mu, sigma_mu, weight, intercept_best,
                  intercept_err_best, h0_best, h0_best_err, printed, intercept,
                  jitterVars, indexVars, wcsVars >>

\* ------------------------------------------------------ WCS: the library
\* The primary header of data/sip.fits: reference pixel, reference sky
\* position, and a SIP distortion (kept as one pixel offset).
SipHeaders == { [crpix |-> << c, c >>, crval |-> << 10, 20 >>, sip |-> 3] :
                c \in {128, 200} }

\* The header of data/PTF_r_chip01_tpv.txt: its distortion is handled inside
\* the core transform, so nothing is left for the 'all' transforms to add.
TpvHeaders == { [crpix |-> << c, c >>, crval |-> << 5, 7 >>, sip |-> 0] :
                c \in {100, 200} }

\* wcs.WCS(header): a new object; assigned counts the assignments made to
\* its wcs.crpix since.
WCS(header) == [crpix |-> header.crpix, crval |-> header.crval,
                sip |-> header.sip, assigned |-> 0]

\* A variant of SetCrpix that sets an attribute of the wrapper, o.crpix, and
\* leaves o.wcs as it was.
SetCrpixAttr(o, v) == o

\* o.wcs.crpix = [v, v]
SetCrpix(o, v) == [o EXCEPT !.crpix = << v, v >>, !.assigned = @ + 1]

\* The distortion a transform of the given kind applies.
Distortion(o, kind) == IF kind = "all" THEN o.sip ELSE 0

\* One axis of o.<kind>_pix2world(..., origin) and of o.<kind>_world2pix.
Pix2World(o, kind, axis, p, origin) ==
  o.crval[axis] + (p + (1 - origin)) + Distortion(o, kind) - o.crpix[axis]

World2Pix(o, kind, axis, s, origin) ==
  (s - o.crval[axis]) + o.crpix[axis] - Distortion(o, kind) - (1 - origin)

\* o.<kind>_pix2world(x, y, origin) on two arrays: the pair (ra, dec)
pix2world(o, kind, x, y, origin) ==
  << [k \in 1..Len(x) |-> Pix2World(o, kind, 1, x[k], origin)],
     [k \in 1..Len(y) |-> Pix2World(o, kind, 2, y[k], origin)] >>

\* A variant of world2pix that always applies the core transform only.
world2pixCore(o, kind, r, d, origin) ==
  << [k \in 1..Len(r) |-> World2Pix(o, "wcs", 1, r[k], origin)],
     [k \in 1..Len(d) |-> World2Pix(o, "wcs", 2, d[k], origin)] >>

world2pix(o, kind, r, d, origin) ==
  << [k \in 1..Len(r) |-> World2Pix(o, kind, 1, r[k], origin)],
     [k \in 1..Len(d) |-> World2Pix(o, kind, 2, d[k], origin)] >>

\* A call on a WCS object, as it is recorded in out.
Call(cell, name, o, op, args, result) ==
  [cell |-> cell, obj |-> name, op |-> op, crpix |-> o.crpix,
   assigned |-> o.assigned, args |-> args, result |-> result]

\* -------------------------------------------------------- WCS: the cells
WcsImport1Stmts == << Stmt({}, {"np"}), Stmt({}, {"plt"}) >>

WcsImport1Cell == PlainCell("w_imports", "w_imports2", WcsImport1Stmts)

WcsImport2Stmts == << Stmt({}, {"os"}), Stmt({}, {"fits"}), Stmt({}, {"wcs"}) >>

WcsImport2Cell == PlainCell("w_imports2", "w_open", WcsImport2Stmts)

WcsOpenStmts == << Stmt({"os"}, {"sip_file_name"}),
                   Stmt({"fits", "sip_file_name"}, {"sip_file"}),
                   Stmt({"sip_file"}, {}) >>

WcsOpenCell ==
  /\ pc = "w_open"
  /\ \E h \in SipHeaders :
       LET r == Run(WcsOpenStmts, bound)
       IN /\ bound' = r.bound
          /\ raised' = Raise("w_open", r)
          /\ sip_file' = IF Ran(r, 2) THEN h ELSE sip_file
  /\ pc' = "w_create"
  /\ UNCHANGED << notebook, resamplingVars, tpv_header, w, w_tpv, ra, dec, out >>

WcsCreateStmts == << Stmt({"wcs", "sip_file"}, {"w"}) >>

WcsCreateCell ==
  /\ pc = "w_create"
  /\ LET r == Run(WcsCreateStmts, bound)
     IN /\ bound' = r.bound
        /\ raised' = Raise("w_create", r)
        /\ w' = IF Ran(r, 1) THEN WCS(sip_file) ELSE w
  /\ pc' = "w_all_pix2world"
  /\ UNCHANGED << notebook, resamplingVars, sip_file, tpv_header, w_tpv, ra, dec, out >>

\* ra, dec = w.<kind>_pix2world([1, 1], [2, 2], 1); print(ra, dec)
ForwardStmts == << Stmt({"w"}, {"ra", "dec"}), Stmt({"ra", "dec"}, {}) >>

ForwardCell(label, next, kind) ==
  /\ pc = label
  /\ LET r == Run(ForwardStmts, bound)
         xy == << << 1, 1 >>, << 2, 2 >> >>
         res == pix2world(w, kind, xy[1], xy[2], Origin)
     IN /\ bound' = r.bound
        /\ raised' = Raise(label, r)
        /\ ra' = IF Ran(r, 1) THEN res[1] ELSE ra
        /\ dec' = IF Ran(r, 1) THEN res[2] ELSE dec
        /\ out' = IF Ran(r, 1)
                  THEN Append(out, Call(label, "w", w, "pix2world", xy, res)) ELSE out
  /\ pc' = next
  /\ UNCHANGED << notebook, resamplingVars, sip_file, tpv_header, w, w_tpv >>

\* w.<kind>_world2pix(ra, dec, 1), printed or shown as the cell's value
InverseStmts == << Stmt({"w", "ra", "dec"}, {}) >>

InverseCell(label, next, kind) ==
  /\ pc = label
  /\ LET r == Run(InverseStmts, bound)
     IN /\ bound' = r.bound
        /\ raised' = Raise(label, r)
        /\ out' = IF Ran(r, 1)
                  THEN Append(out, Call(label, "w", w, "world2pix", << ra, dec >>,
                                        world2pix(w, kind, ra, dec, Origin)))
                  ELSE out
  /\ pc' = next
  /\ UNCHANGED << notebook, resamplingVars, sip_file, tpv_header, w, w_tpv, ra, dec >>

AllPix2WorldCell == ForwardCell("w_all_pix2world", "w_all_world2pix", "all")

AllWorld2PixCell == InverseCell("w_all_world2pix", "w_wcs_pix2world", "all")

WcsPix2WorldCell == ForwardCell("w_wcs_pix2world", "w_wcs_world2pix", "wcs")

WcsWorld2PixCell == InverseCell("w_wcs_world2pix", "w_printwcs", "wcs")

PrintWcsStmts == << Stmt({"w"}, {}) >>

\* # The original WCS
PrintWcsCell ==
  /\ pc = "w_printwcs"
  /\ LET r == Run(PrintWcsStmts, bound)
     IN /\ bound' = r.bound
        /\ raised' = Raise("w_printwcs", r)
        /\ out' = IF Ran(r, 1)
                  THEN Append(out, Call("w_printwcs", "w", w, "printwcs", << >>, w.crpix))
                  ELSE out
  /\ pc' = "w_set_crpix"
  /\ UNCHANGED << notebook, resamplingVars, sip_file, tpv_header, w, w_tpv, ra, dec >>

SetCrpixStmts == << Stmt({"w"}, {}), Stmt({"w"}, {}) >>

\* w.wcs.crpix = [200, 200]; w.to_header()
SetCrpixCell ==
  /\ pc = "w_set_crpix"
  /\ LET r == Run(SetCrpixStmts, bound)
         w2 == IF Ran(r, 1) THEN SetCrpix(w, NewCrpix) ELSE w
     IN /\ bound' = r.bound
        /\ raised' = Raise("w_set_crpix", r)
        /\ w' = w2
        /\ out' = IF Ran(r, 2)
                  THEN Append(out, Call("w_set_crpix", "w", w2, "to_header", << >>,
                                        w2.crpix))
                  ELSE out
  /\ pc' = "w_tpv_header"
  /\ UNCHANGED << notebook, resamplingVars, sip_file, tpv_header, w_tpv, ra, dec >>

TpvHeaderStmts == << Stmt({"fits", "os"}, {"tpv_header"}) >>

TpvHeaderCell ==
  /\ pc = "w_tpv_header"
  /\ \E h \in TpvHeaders :
       LET r == Run(TpvHeaderStmts, bound)
       IN /\ bound' = r.bound
          /\ raised' = Raise("w_tpv_header", r)
          /\ tpv_header' = IF Ran(r, 1) THEN h ELSE tpv_header
  /\ pc' = "w_tpv_create"
  /\ UNCHANGED << notebook, resamplingVars, sip_file, w, w_tpv, ra, dec, out >>

TpvCreateStmts == << Stmt({"wcs", "tpv_header"}, {"w_tpv"}) >>

TpvCreateCell ==
  /\ pc = "w_tpv_create"
  /\ LET r == Run(TpvCreateStmts, bound)
     IN /\ bound' = r.bound
        /\ raised' = Raise("w_tpv_create", r)
        /\ w_tpv' = IF Ran(r, 1) THEN WCS(tpv_header) ELSE w_tpv
  /\ pc' = "w_tpv_to_header"
  /\ UNCHANGED << notebook, resamplingVars, sip_file, tpv_header, w, ra, dec, out >>

TpvCallStmts == << Stmt({"w_tpv"}, {}) >>

\* A cell that makes one call on w_tpv.
TpvCallCell(label, next, op, args, result) ==
  /\ pc = label
  /\ LET r == Run(TpvCallStmts, bound)
     IN /\ bound' = r.bound
        /\ raised' = Raise(label, r)
        /\ out' = IF Ran(r, 1)
                  THEN Append(out, Call(label, "w_tpv", w_tpv, op, args, result))
                  ELSE out
  /\ pc' = next
  /\ UNCHANGED << notebook, resamplingVars, sip_file, tpv_header, w, w_tpv, ra, dec >>

TpvToHeaderCell ==
  TpvCallCell("w_tpv_to_header", "w_tpv_all", "to_header", << >>, w_tpv.crpix)

\* print(w_tpv.all_pix2world([[500,1000]], 1))
TpvAllCell ==
  TpvCallCell("w_tpv_all", "w_tpv_wcs", "pix2world", << << 500 >>, << 1000 >> >>,
              pix2world(w_tpv, "all", << 500 >>, << 1000 >>, Origin))

\* print(w_tpv.wcs_pix2world([[500,1000]], 1))
TpvWcsCell ==
  TpvCallCell("w_tpv_wcs", "w_dist_open", "pix2world", << << 500 >>, << 1000 >> >>,
              pix2world(w_tpv, "wcs", << 500 >>, << 1000 >>, Origin))

DistOpenStmts == << Stmt({}, {"dist_file_name"}),
                    Stmt({"fits", "dist_file_name"}, {"f"}) >>

DistOpenCell == PlainCell("w_dist_open", "done", DistOpenStmts)

\* ------------------------------------------------------ the specification
NoRoot == [sq |-> << 0, 1 >>]
NoHeader == [crpix |-> << 0, 0 >>, crval |-> << 0, 0 >>, sip |-> 0]

\* Placeholders of the value variables: no cell reads one before the name
\* is bound.
FreshHubble ==
  /\ data = << >> /\ data_modern = << >> /\ ndata = 0 /\ nbootstraps = 0
  /\ hboot = << >> /\ h0_mean = << >>

FreshSN ==
  /\ logv = << >> /\ mu = << >> /\ sigma_mu = << >> /\ weight = << >>
  /\ intercept_best = 0 /\ intercept_err_best = 0 /\ h0_best = 0
  /\ h0_best_err = 0 /\ printed = << >> /\ intercept = 0

FreshJack ==
  /\ logv_jack = << >> /\ mu_jack = << >> /\ weight_jack = << >>
  /\ h0_jack = << >> /\ h0_sigma_jack = NoRoot

FreshLater ==
  /\ sboot = << >> /\ h0_median_smoothed = << >>
  /\ nsims = 0 /\ rand_indices = << >> /\ jack_writes = << >>

FreshWcs ==
  /\ sip_file = NoHeader /\ tpv_header = NoHeader
  /\ w = WCS(NoHeader) /\ w_tpv = WCS(NoHeader)
  /\ ra = << >> /\ dec = << >> /\ out = << >>

\* A fresh kernel: nothing is bound.
FreshKernel ==
  /\ raised = {} /\ bound = {}
  /\ FreshHubble /\ FreshSN /\ FreshJack /\ FreshLater /\ FreshWcs

Init ==
  /\ notebook \in {"resampling", "wcs"}
  /\ pc = IF notebook = "resampling" THEN "imports" ELSE "w_imports"
  /\ FreshKernel

Next ==
  \/ ImportCell \/ LoadHubbleCell \/ PlotAllCell \/ DateCutCell \/ HistCell
  \/ BootstrapDrawCell \/ HistBootCell \/ HistFirst5Cell \/ MeanCell
  \/ PercentileCell \/ MedianCell \/ JitterCell \/ LoadSNCell
  \/ BootstrapFitCell \/ HistH0Cell \/ PrintValuesCell \/ JackknifeCell
  \/ WcsImport1Cell \/ WcsImport2Cell \/ WcsOpenCell \/ WcsCreateCell
  \/ AllPix2WorldCell \/ AllWorld2PixCell \/ WcsPix2WorldCell
  \/ WcsWorld2PixCell \/ PrintWcsCell \/ SetCrpixCell \/ TpvHeaderCell
  \/ TpvCreateCell \/ TpvToHeaderCell \/ TpvAllCell \/ TpvWcsCell
  \/ DistOpenCell

Spec == Init /\ [][Next]_vars

\* ------------------------------------- the intercept conversion on a grid
\* The second part of the resampling notebook, evaluated in a kernel that has
\* run the import cell, for every intercept and standard error of a grid on
\* which int_to_H0 is exact in its fixed-point unit.
WideIntercepts == 6..25
WideErrs == 0..5

LoadSNWideCell == LoadSN(WideIntercepts, WideErrs)

InitConv ==
  /\ notebook = "resampling"
  /\ pc = "load_sn"
  /\ raised = {} /\ bound = {"np", "pd", "plt"}
  /\ FreshHubble /\ FreshSN /\ FreshJack /\ FreshLater /\ FreshWcs

NextConv == LoadSNWideCell \/ BootstrapFitCell \/ HistH0Cell \/ PrintValuesCell

SpecConv == InitConv /\ [][NextConv]_vars

\* --------------------------------- the jackknife error on any estimates
\* The statement h0_sigma_jack = np.std(h0_jack)*np.sqrt(ndata-1), applied to
\* any ndata leave-one-out estimates the fitting loop may have stored.
JackVals == {60, 70, 75}

SigmaJackStmts == << JackknifeStmts[10] >>

SigmaJackStep ==
  /\ pc = "sigma_jack"
  /\ LET r == Run(SigmaJackStmts, bound)
     IN /\ bound' = r.bound
        /\ raised' = Raise("jackknife", r)
        /\ h0_sigma_jack' = IF Ran(r, 1) THEN SigmaJack(h0_jack, ndata)
                            ELSE h0_sigma_jack
  /\ pc' = "done"
  /\ UNCHANGED << notebook, data, data_modern, ndata, nbootstraps, hboot, h0_mean,
                  logv, mu, sigma_mu, weight, intercept_best,
                  intercept_err_best, h0_best, h0_best_err, printed, intercept,
                  logv_jack, mu_jack, weight_jack, h0_jack,
                  jitterVars, indexVars, jack_writes, wcsVars >>

InitJack ==
  /\ notebook = "resampling"
  /\ pc = "sigma_jack"
  /\ raised = {} /\ bound = {"np", "plt", "ndata", "h0_jack"}
  /\ data = << >> /\ data_modern = << >> /\ nbootstraps = 0
  /\ hboot = << >> /\ h0_mean = << >>
  /\ FreshSN /\ FreshLater /\ FreshWcs
  /\ logv_jack = << >> /\ mu_jack = << >> /\ weight_jack = << >>
  /\ h0_sigma_jack = NoRoot
  /\ ndata \in (FitOrder + 1)..MaxSN
  /\ h0_jack \in [1..ndata -> JackVals]

NextJack == SigmaJackStep

SpecJack == InitJack /\ [][NextJack]_vars

\* ================================================================ claims
Count(v, s) == Cardinality({ k \in 1..Len(s) : s[k] = v })

\* C1: after the bootstrap-draw cell, hboot has exactly nbootstraps rows and
\* ndata columns, ndata being the number of rows of data_modern, and every
\* entry of hboot is a value that occurs in data_modern.h0.
C1_HbootShape ==
  "hboot" \in bound =>
    /\ Len(hboot) = nbootstraps
    /\ nbootstraps = NBootstraps
    /\ pc = "hist_boot" => ndata = Len(data_modern)
    /\ \A k \in 1..Len(hboot) :
         /\ Len(hboot[k]) = Len(data_modern)
         /\ \A j \in 1..Len(hboot[k]) :
              \E m \in 1..Len(data_modern) : hboot[k][j] = data_modern[m].h0

\* The draw is with replacement: a row of hboot holds a value more often than
\* data_modern.h0 does.
C1_Witness ==
  /\ "hboot" \in bound
  /\ \E k \in 1..Len(hboot) : \E j \in 1..Len(hboot[k]) :
       Count(hboot[k][j], hboot[k]) > Count(hboot[k][j], Column(data_modern, "h0"))

\* The jackknife construction loop has run to its end.
ConstructionDone ==
  /\ notebook = "resampling" /\ pc = "done"
  /\ \A e \in raised : e.cell = "jackknife" => e.stmt > 6

\* Row i (0-based) of a leave-one-out array xj is the column x without its
\* element at position i, the others in their order.
IsLeaveOneOut(xj, x, n) ==
  /\ Len(xj) = n
  /\ \A i \in 0..(n - 1) :
       /\ Len(xj[i + 1]) = n - 1
       /\ \A j \in 1..(n - 1) :
            xj[i + 1][j] = IF j <= i THEN x[j] ELSE x[j + 1]

\* C2: after the jackknife construction loop, for every i in 0..ndata-1 and
\* each of logv, mu and weight, row i of the *_jack array has ndata-1 entries
\* and is the column without its element i, in the original order.
C2_LeaveOneOut ==
  ConstructionDone =>
    /\ ndata = Len(mu) /\ Len(logv) = ndata /\ Len(weight) = ndata
    /\ IsLeaveOneOut(logv_jack, logv, ndata)
    /\ IsLeaveOneOut(mu_jack, mu, ndata)
    /\ IsLeaveOneOut(weight_jack, weight, ndata)

C2_Witness == ConstructionDone /\ ndata >= 3 /\ mu_jack[2] = << mu[1], mu[3] >>

\* The variance of x as the mean of the squares less the square of the mean:
\* (n*sum(x^2) - sum(x)^2) / n^2.
MeanSquareVariance(x) ==
  LET n == Len(x)
  IN << n * Sum([k \in 1..n |-> x[k] * x[k]]) - Sum(x) * Sum(x), n * n >>

ResamplingRaises ==
  { [cell |-> "median", error |-> "SyntaxError", stmt |-> 0],
    [cell |-> "jitter", error |-> "SyntaxError", stmt |-> 0],
    [cell |-> "bootstrap_fit", error |-> "SyntaxError", stmt |-> 0],
    [cell |-> "print_values", error |-> "NameError", stmt |-> 2],
    [cell |-> "jackknife", error |-> "NameError", stmt |-> 8] }

\* C4 (as amended): evaluated once each from top to bottom, the WCS notebook
\* raises in no cell, and the resampling notebook raises in exactly five: the
\* three cells left unfinished (median, jitter, bootstrap fit) do not parse,
\* the cell printing the values reads h0_boot, and the jackknife cell reads
\* intercept, neither of which any cell assigns; every other cell reads only
\* names assigned before.
C4_RaisingCells ==
  /\ notebook = "wcs" => raised = {}
  /\ notebook = "resampling" => raised \subseteq ResamplingRaises
  /\ (notebook = "resampling" /\ pc = "done") =>
       /\ raised = ResamplingRaises
       /\ "h0_boot" \notin bound /\ "intercept" \notin bound
       /\ {"data_modern", "hboot", "ndata", "nbootstraps", "intercept_best",
           "int_to_H0"} \subseteq bound
  /\ (notebook = "wcs" /\ pc = "done") => {"w", "ra", "dec", "w_tpv"} \subseteq bound

C4_Witness == notebook = "resampling" /\ pc = "done" /\ raised = ResamplingRaises

\* C4 as stated: no cell raises.
C4_NoCellRaises == raised = {}

C6_From2001Onward ==
  ("data_modern" \in bound /\ "mu" \notin bound) =>
    data_modern = SelectSeq(data, LAMBDA r : r.date >= 2001)

\* The calls made on w, by the cell that makes them, in order.
WCalls == << "w_all_pix2world", "w_all_world2pix", "w_wcs_pix2world",
             "w_wcs_world2pix", "w_printwcs", "w_set_crpix" >>

\* C7: w is unmodified from its creation until w.wcs.crpix = [200, 200]: the
\* four transform calls and printwcs() see the crpix of the file header, the
\* to_header() after the assignment is the first call to see the assigned
\* [200, 200], and w_tpv keeps the crpix of its own header.
C7_CrpixTimeline ==
  /\ \A k \in 1..Len(out) :
       /\ (out[k].obj = "w" /\ out[k].op # "to_header") =>
            out[k].crpix = sip_file.crpix /\ out[k].assigned = 0
       /\ (out[k].obj = "w" /\ out[k].op = "to_header") =>
            /\ out[k].crpix = << 200, 200 >> /\ out[k].assigned = 1
            /\ out[k].result = << 200, 200 >>
            /\ \A j \in 1..(k - 1) : out[j].assigned = 0
            /\ sip_file.crpix # << 200, 200 >> =>
                 \A j \in 1..(k - 1) : out[j].crpix # << 200, 200 >>
       /\ out[k].obj = "w_tpv" =>
            out[k].crpix = tpv_header.crpix /\ out[k].assigned = 0
  /\ ("w" \in bound /\ Len(out) < Len(WCalls)) =>
       w.crpix = sip_file.crpix /\ w.assigned = 0
  /\ "w_tpv" \in bound => w_tpv.crpix = tpv_header.crpix /\ w_tpv.assigned = 0
  /\ Len(out) >= Len(WCalls) =>
       [k \in 1..Len(WCalls) |-> out[k].cell] = WCalls
  /\ (notebook = "wcs" /\ pc = "done") => Len(out) = Len(WCalls) + 3

C7_Witness ==
  /\ notebook = "wcs" /\ pc = "done"
  /\ sip_file.crpix # << 200, 200 >> /\ w.crpix = << 200, 200 >>
  /\ tpv_header.crpix # << 200, 200 >>
  /\ out[6].op = "to_header" /\ out[7].obj = "w_tpv"

\* C8: each inverse transform receives the (ra, dec) its matching forward
\* transform returned on the same w with origin 1, and returns the pixel
\* coordinates x = [1, 1], y = [2, 2] the forward transform was given.
C8_RoundTrip ==
  \A k \in 1..Len(out) :
    out[k].op = "world2pix" =>
      /\ k > 1
      /\ out[k - 1].op = "pix2world" /\ out[k - 1].obj = out[k].obj
      /\ << out[k - 1].cell, out[k].cell >> \in
           { << "w_all_pix2world", "w_all_world2pix" >>,
             << "w_wcs_pix2world", "w_wcs_world2pix" >> }
      /\ out[k].args = out[k - 1].result
      /\ out[k].crpix = out[k - 1].crpix
      /\ out[k].result = << << 1, 1 >>, << 2, 2 >> >>
      /\ out[k - 1].args = << << 1, 1 >>, << 2, 2 >> >>

\* Both round trips are done, and the two forward transforms differ.
C8_Witness ==
  /\ Len(out) >= 4
  /\ out[2].op = "world2pix" /\ out[4].op = "world2pix"
  /\ out[1].result # out[3].result

\* C9: h0_mean has nbootstraps entries, entry k is the sum of row k of hboot
\* divided by ndata, and so lies between the least and the greatest value of
\* data_modern.h0.
C9_RowMeans ==
  "h0_mean" \in bound =>
    /\ Len(h0_mean) = nbootstraps /\ Len(h0_mean) = Len(hboot)
    /\ pc = "percentile" => ndata = Len(data_modern)
    /\ \A k \in 1..Len(h0_mean) :
         /\ RatEq(h0_mean[k], << Sum(hboot[k]), Len(data_modern) >>)
         /\ h0_mean[k][2] > 0
         /\ \E lo, hi \in Range(Column(data_modern, "h0")) :
              /\ \A v \in Range(Column(data_modern, "h0")) : lo <= v /\ v <= hi
              /\ RatLe(<< lo, 1 >>, h0_mean[k]) /\ RatLe(h0_mean[k], << hi, 1 >>)

\* A mean strictly between two measured values, and rows with different means.
C9_Witness ==
  /\ "h0_mean" \in bound
  /\ \E k \in 1..Len(h0_mean) :
       \A v \in Range(Column(data_modern, "h0")) : ~RatEq(h0_mean[k], << v, 1 >>)
  /\ \E k, m \in 1..Len(h0_mean) : ~RatEq(h0_mean[k], h0_mean[m])

\* C10: int_to_H0 is strictly decreasing, so the three printed values are in
\* ascending order around h0_best and h0_best_err is not negative; at an
\* intercept b = 5k the conversion is 10^(5-k), 1 at b = 25.
C10_Conversion ==
  /\ "h0_best" \in bound =>
       /\ \A b \in 1..30 :
            /\ b < intercept_best => int_to_H0(b) > h0_best
            /\ b > intercept_best => int_to_H0(b) < h0_best
       /\ intercept_best % 5 = 0 =>
            h0_best = Pow10(5 - (intercept_best \div 5)) * 10000
       /\ intercept_best = 25 => h0_best = 10000
  /\ "h0_best_err" \in bound =>
       /\ h0_best_err >= 0
       /\ intercept_err_best > 0 => h0_best_err > 0
  /\ printed # << >> =>
       /\ Len(printed) = 3
       /\ printed[1] <= printed[2] /\ printed[2] <= printed[3]
       /\ printed[2] = h0_best
       /\ intercept_err_best > 0 =>
            printed[1] < printed[2] /\ printed[2] < printed[3]

C10_Witness ==
  /\ printed # << >> /\ intercept_err_best > 0
  /\ intercept_best = 25 /\ printed[2] = 10000 /\ h0_best_err > 0

\* ------------------------------------------------ the jitter statements
\* The first part of the resampling notebook, top to bottom, on tables with
\* one measurement value after the cut; the jitter cell is evaluated as
\* written, or its statements above the unfinished line on their own.
JitterRows == { [h0 |-> 60, date |-> 2000], [h0 |-> 80, date |-> 2002] }

JitterTables == { t \in UNION { [1..k -> JitterRows] : k \in 1..MaxRows } :
                  \E k \in 1..Len(t) : t[k].date > DateCut }

LoadHubbleJitterCell == LoadHubble(JitterTables)

InitJitter ==
  /\ notebook = "resampling"
  /\ pc = "imports"
  /\ FreshKernel

NextJitter ==
  \/ ImportCell \/ LoadHubbleJitterCell \/ PlotAllCell \/ DateCutCell \/ HistCell
  \/ BootstrapDrawCell \/ HistBootCell \/ HistFirst5Cell \/ MeanCell
  \/ PercentileCell \/ MedianCell \/ JitterCell \/ JitterLines

SpecJitter == InitJitter /\ [][NextJitter]_vars

JitterSyntaxError == [cell |-> "jitter", error |-> "SyntaxError", stmt |-> 0]

\* C11 (as amended): when the jitter cell is evaluated, ndata and nbootstraps
\* still hold the values used to build hboot, so the noise array has the
\* shape of hboot and, where the statements above the unfinished line run,
\* sboot has one jittered value per entry of hboot and h0_median_smoothed has
\* nbootstraps entries; the cell as written does not parse and assigns
\* neither.
C11_JitterShapes ==
  /\ pc = "jitter" =>
       /\ nbootstraps = Len(hboot) /\ ndata = Len(data_modern)
       /\ \A k \in 1..Len(hboot) : Len(hboot[k]) = ndata
       /\ \A z \in np_random_randn(nbootstraps, ndata) : Shape(z) = Shape(hboot)
  /\ "sboot" \in bound =>
       /\ nbootstraps = Len(hboot) /\ ndata = Len(data_modern)
       /\ Len(sboot) = nbootstraps
       /\ \A k \in 1..Len(sboot) :
            /\ Len(sboot[k]) = ndata /\ Len(hboot[k]) = ndata
            /\ \A j \in 1..ndata : (sboot[k][j] - hboot[k][j]) \in NoiseVals
  /\ "h0_median_smoothed" \in bound => Len(h0_median_smoothed) = nbootstraps
  /\ JitterSyntaxError \in raised =>
       "sboot" \notin bound /\ "h0_median_smoothed" \notin bound
  /\ \A e \in raised : e.cell = "jitter" => e = JitterSyntaxError

C11_Witness ==
  /\ "sboot" \in bound /\ "h0_median_smoothed" \in bound
  /\ Shape(sboot) = << NBootstraps, 2 >>
  /\ sboot[1][1] # hboot[1][1] /\ sboot[1][2] = hboot[1][2]

\* C11 as stated: once the jitter cell has been evaluated, sboot holds one
\* jittered value per entry of hboot and h0_median_smoothed nbootstraps
\* entries.
C11_JitterCellRuns ==
  pc = "load_sn" =>
    /\ "sboot" \in bound /\ "h0_median_smoothed" \in bound
    /\ Shape(sboot) = Shape(hboot)
    /\ Len(h0_median_smoothed) = nbootstraps

\* ------------------------------------------------ the index array
\* Lines 307-316 as statements of their own, on the columns the cell above
\* derives from one supernova table; ndata still holds the length of the
\* Hubble sample.
MaxIdx == 2

IdxRows == { SNRow(1), SNRow(2), SNRow(3) }

IdxTables == UNION { [1..n -> IdxRows] : n \in 1..MaxIdx }

InitIndices ==
  /\ notebook = "resampling"
  /\ pc = "rand_indices"
  /\ raised = {}
  /\ bound = {"np", "pd", "plt", "ndata", "data", "logv", "mu", "sigma_mu", "weight"}
  /\ data_modern = << >> /\ nbootstraps = 0
  /\ hboot = << >> /\ h0_mean = << >>
  /\ ndata = MaxRows
  /\ \E t \in IdxTables :
       /\ data = t
       /\ logv = [k \in 1..Len(t) |-> np_log10(t[k].cz)]
       /\ mu = Column(t, "mu")
       /\ sigma_mu = Column(t, "sigma_mu")
       /\ weight = Weight(Column(t, "sigma_mu"))
  /\ intercept_best = 0 /\ intercept_err_best = 0
  /\ h0_best = 0 /\ h0_best_err = 0 /\ printed = << >> /\ intercept = 0
  /\ FreshJack /\ FreshLater /\ FreshWcs

NextIndices == RandIndicesStep

SpecIndices == InitIndices /\ [][NextIndices]_vars

\* The array holding position p in every entry.
AllDrawn(p, rows, cols) == [k \in 1..rows |-> [j \in 1..cols |-> p]]

FitNames == {"np", "pd", "plt", "data", "ndata", "logv", "mu", "sigma_mu",
             "weight", "int_to_H0", "intercept_best", "intercept_err_best",
             "h0_best", "h0_best_err"}

InitFit ==
  /\ notebook = "resampling"
  /\ pc = "jackknife"
  /\ raised = {}
  /\ data_modern = << >> /\ nbootstraps = 0
  /\ hboot = << >> /\ h0_mean = << >>
  /\ ndata \in 1..MaxRows
  /\ \E t \in SNTables :
       /\ data = t
       /\ logv = [k \in 1..Len(t) |-> np_log10(t[k].cz)]
       /\ mu = Column(t, "mu")
       /\ sigma_mu = Column(t, "sigma_mu")
       /\ weight = Weight(Column(t, "sigma_mu"))
  /\ intercept_best = 0 /\ intercept_err_best = 0
  /\ h0_best = 0 /\ h0_best_err = 0 /\ printed = << >>
  /\ \/ intercept = 0 /\ bound = FitNames
     \/ intercept \in WideIntercepts /\ bound = FitNames \cup {"intercept"}
  /\ FreshJack /\ FreshLater /\ FreshWcs

NextFit == JackknifeCell

SpecFit == InitFit /\ [][NextFit]_vars

\* Position p is written exactly once by the logged writes.
WrittenOnce(p) ==
  Cardinality({ k \in 1..Len(jack_writes) : jack_writes[k].i = p }) = 1

FitNameError == [cell |-> "jackknife", error |-> "NameError", stmt |-> 8]

\* C13 (as amended): the allocation of length ndata-1 is replaced by one of
\* length ndata before the fitting loop, so at every write h0_jack[i] the
\* array has length ndata and i is in range; where intercept is assigned the
\* loop writes each of the ndata entries exactly once; as written intercept
\* is unassigned, the first pass raises NameError before any write and
\* h0_jack keeps its ndata zeros.
C13_FitWrites ==
  /\ \A k \in 1..Len(jack_writes) :
       /\ jack_writes[k].len = ndata /\ jack_writes[k].len = Len(h0_jack)
       /\ 0 <= jack_writes[k].i /\ jack_writes[k].i < jack_writes[k].len
  /\ \A e \in raised : e.error # "IndexError"
  /\ (pc = "done" /\ "intercept" \in bound) =>
       /\ Len(h0_jack) = ndata /\ Len(jack_writes) = ndata
       /\ \A p \in 0..(ndata - 1) : WrittenOnce(p)
       /\ \A k \in 1..ndata : h0_jack[k] = int_to_H0(intercept)
       /\ raised = {}
  /\ (pc = "done" /\ "intercept" \notin bound) =>
       /\ raised = {FitNameError}
       /\ jack_writes = << >>
       /\ h0_jack = np_zeros(ndata)

C13_Witness ==
  /\ pc = "done" /\ "intercept" \in bound
  /\ ndata = MaxSN /\ Len(jack_writes) = ndata
  /\ jack_writes[ndata] = [i |-> ndata - 1, len |-> ndata]

\* C13 as stated: after the jackknife cell every one of the ndata entries of
\* h0_jack has been written exactly once.
C13_AllWritten ==
  pc = "done" =>
    /\ Len(h0_jack) = ndata
    /\ \A p \in 0..(ndata - 1) : WrittenOnce(p)

====
